---- MODULE Spec2Model ----
(***************************************************************************)
(* backend/ocr_pipeline.py: extract_qa_from_image.                         *)
(*                                                                         *)
(* One invocation is a straight line: _client(), _image_to_data_url(),     *)
(* client.responses.create(), resp.output_text.strip(), json.loads(), the  *)
(* isinstance(data, list) check, the cleaning loop, and return.            *)
(*                                                                         *)
(* Representation.  A Python str is a sequence of chunks: the chunk " "    *)
(* is one whitespace character, any other chunk is a run of non-whitespace *)
(* characters.  The model's response text is a sequence of lexemes         *)
(* (tokens); a string literal carries its content as chunks.  A parsed     *)
(* JSON value is a record [t, s, items].                                   *)
(***************************************************************************)
EXTENDS Integers, Sequences, FiniteSets, TLC

(* ---------------------------------------------------------------------- *)
(* Bounds of the model                                                     *)
(* ---------------------------------------------------------------------- *)
MaxItems  == 2   \* longest JSON array the vision model is made to answer
MaxTokens == 3   \* longest response enumerated lexeme by lexeme
MaxCut    == 1   \* most lexemes the response-length ceiling cuts off

(* ---------------------------------------------------------------------- *)
(* Python str                                                              *)
(* ---------------------------------------------------------------------- *)
WS == " "

RECURSIVE LStrip(_)
LStrip(s) == IF s # <<>> /\ Head(s) = WS THEN LStrip(Tail(s)) ELSE s

RECURSIVE RStrip(_)
RStrip(s) ==
    IF s # <<>> /\ s[Len(s)] = WS THEN RStrip(SubSeq(s, 1, Len(s) - 1)) ELSE s

\* str.strip() with no argument: leading and trailing whitespace removed.
Strip(s) == RStrip(LStrip(s))

(* ---------------------------------------------------------------------- *)
(* JSON values as json.loads builds them                                   *)
(* ---------------------------------------------------------------------- *)
Val(t, s, items) == [t |-> t, s |-> s, items |-> items]

JNull      == Val("null", <<>>, <<>>)
JTrue      == Val("true", <<>>, <<>>)
JFalse     == Val("false", <<>>, <<>>)
JStr(s)    == Val("str", s, <<>>)
JNum(s)    == Val("num", s, <<>>)
JConst(s)  == Val("float", s, <<>>)     \* float('nan'), float('inf'), float('-inf')
JList(xs)  == Val("list", <<>>, xs)
JDict(ms)  == Val("dict", <<>>, ms)     \* ms: sequence of [key, val], keys distinct

Member(k, v) == [key |-> k, val |-> v]

\* dict[k] = v : a repeated key keeps its first position and takes the last value.
DictSet(ms, k, v) ==
    IF \E i \in 1..Len(ms) : ms[i].key = k
    THEN [i \in 1..Len(ms) |-> IF ms[i].key = k THEN Member(k, v) ELSE ms[i]]
    ELSE Append(ms, Member(k, v))

HasKey(d, k) == \E i \in 1..Len(d.items) : d.items[i].key = k

\* item.get(k, default)
DictGet(d, k, default) ==
    IF HasKey(d, k)
    THEN d.items[CHOOSE i \in 1..Len(d.items) : d.items[i].key = k].val
    ELSE default

(* ---------------------------------------------------------------------- *)
(* Lexemes of the response text                                            *)
(* ---------------------------------------------------------------------- *)
Tok(k, s) == [k |-> k, s |-> s]

LBrack   == Tok("[", <<>>)
RBrack   == Tok("]", <<>>)
LBrace   == Tok("{", <<>>)
RBrace   == Tok("}", <<>>)
Colon    == Tok(":", <<>>)
Comma    == Tok(",", <<>>)
TNull    == Tok("null", <<>>)
TTrue    == Tok("true", <<>>)
TFalse   == Tok("false", <<>>)
TStr(s)  == Tok("str", s)       \* a complete string literal "..."
TNum(s)  == Tok("num", s)       \* a number literal
TConst(s) == Tok("const", s)    \* NaN, Infinity, -Infinity
TJunk(s) == Tok("junk", s)      \* any other run of characters (prose, a fence)
TOpen(s) == Tok("ustr", s)      \* a string literal whose closing quote is missing
TSpace   == Tok("ws", <<>>)     \* a run of whitespace between lexemes


(* ---------------------------------------------------------------------- *)
(* json.loads                                                              *)
(* ---------------------------------------------------------------------- *)
ParseFail  == [ok |-> FALSE, v |-> JNull, n |-> 0]
ParseOk(v, n) == [ok |-> TRUE, v |-> v, n |-> n]

\* float(c) for the three constants the decoder hands to parse_constant.
ConstValue(s) ==
    IF s = <<"NaN">> THEN JConst(<<"nan">>)
    ELSE IF s = <<"Infinity">> THEN JConst(<<"inf">>)
    ELSE JConst(<<"-inf">>)

\* The scanner: one value starting at lexeme i.  `constants` says whether
\* NaN, Infinity and -Infinity are taken as values: json.loads takes them
\* (the decoder's default parse_constant); the JSON grammar has no such value.
RECURSIVE ScanOnce(_, _, _), ParseArray(_, _, _, _), ParseObject(_, _, _, _)
ScanOnce(toks, i, constants) ==
    IF i > Len(toks) THEN ParseFail
    ELSE LET t == toks[i] IN
         CASE t.k = "str"   -> ParseOk(JStr(t.s), i + 1)
           [] t.k = "num"   -> ParseOk(JNum(t.s), i + 1)
           [] t.k = "null"  -> ParseOk(JNull, i + 1)
           [] t.k = "true"  -> ParseOk(JTrue, i + 1)
           [] t.k = "false" -> ParseOk(JFalse, i + 1)
           [] t.k = "const" -> IF constants THEN ParseOk(ConstValue(t.s), i + 1)
                               ELSE ParseFail
           [] t.k = "["     -> IF i + 1 <= Len(toks) /\ toks[i + 1] = RBrack
                               THEN ParseOk(JList(<<>>), i + 2)
                               ELSE ParseArray(toks, i + 1, <<>>, constants)
           [] t.k = "{"     -> IF i + 1 <= Len(toks) /\ toks[i + 1] = RBrace
                               THEN ParseOk(JDict(<<>>), i + 2)
                               ELSE ParseObject(toks, i + 1, <<>>, constants)
           [] OTHER         -> ParseFail

\* JSONArray after "[": a value, then "," and another value, or "]".
ParseArray(toks, i, acc, constants) ==
    LET r == ScanOnce(toks, i, constants) IN
    IF ~r.ok \/ r.n > Len(toks) THEN ParseFail
    ELSE IF toks[r.n] = RBrack THEN ParseOk(JList(Append(acc, r.v)), r.n + 1)
    ELSE IF toks[r.n] = Comma THEN ParseArray(toks, r.n + 1, Append(acc, r.v), constants)
    ELSE ParseFail

\* JSONObject after "{": a string key, ":", a value, then "," or "}".
ParseObject(toks, i, acc, constants) ==
    IF i + 1 > Len(toks) \/ toks[i].k # "str" \/ toks[i + 1] # Colon THEN ParseFail
    ELSE LET r == ScanOnce(toks, i + 2, constants) IN
         IF ~r.ok \/ r.n > Len(toks) THEN ParseFail
         ELSE IF toks[r.n] = RBrace
              THEN ParseOk(JDict(DictSet(acc, toks[i].s, r.v)), r.n + 1)
         ELSE IF toks[r.n] = Comma
              THEN ParseObject(toks, r.n + 1, DictSet(acc, toks[i].s, r.v), constants)
         ELSE ParseFail

\* Whitespace between lexemes is skipped.
SkipSpace(toks) == SelectSeq(toks, LAMBDA t : t.k # "ws")

\* JSONDecoder.decode: one value, then nothing but whitespace ("Extra data"
\* otherwise).  ok = FALSE stands for json.JSONDecodeError.
Decode(text, constants) ==
    LET toks == SkipSpace(text)
        r    == ScanOnce(toks, 1, constants)
    IN  IF r.ok /\ r.n = Len(toks) + 1 THEN r ELSE ParseFail

JsonLoads(text) == Decode(text, TRUE)

\* The text is a JSON text of the JSON grammar (RFC 8259).
ValidJson(text) == Decode(text, FALSE).ok

(* ---------------------------------------------------------------------- *)
(* str(x)                                                                  *)
(* ---------------------------------------------------------------------- *)
RECURSIVE Repr(_), ReprItems(_, _), ReprMembers(_, _)
Repr(v) ==
    CASE v.t = "str"   -> <<"'">> \o v.s \o <<"'">>
      [] v.t = "num"   -> v.s
      [] v.t = "float" -> v.s
      [] v.t = "null"  -> <<"None">>
      [] v.t = "true"  -> <<"True">>
      [] v.t = "false" -> <<"False">>
      [] v.t = "list"  -> <<"[">> \o ReprItems(v.items, 1) \o <<"]">>
      [] v.t = "dict"  -> <<"{">> \o ReprMembers(v.items, 1) \o <<"}">>

ReprItems(xs, i) ==
    IF i > Len(xs) THEN <<>>
    ELSE (IF i > 1 THEN <<",", WS>> ELSE <<>>) \o Repr(xs[i]) \o ReprItems(xs, i + 1)

ReprMembers(ms, i) ==
    IF i > Len(ms) THEN <<>>
    ELSE (IF i > 1 THEN <<",", WS>> ELSE <<>>)
         \o <<"'">> \o ms[i].key \o <<"'", ":", WS>> \o Repr(ms[i].val)
         \o ReprMembers(ms, i + 1)

\* str(x): a str is itself, anything else is its repr.
Str(v) == IF v.t = "str" THEN v.s ELSE Repr(v)


(* ---------------------------------------------------------------------- *)
(* The cleaning loop, lines 92-114                                         *)
(* ---------------------------------------------------------------------- *)
QN    == <<"question_number">>
QTEXT == <<"question_text">>
SANS  == <<"student_answer">>
WORK  == <<"student_working">>

\* A variant of lines 97-100: item.get(key) with no default.
FieldNoDefault(item, key) == JStr(Strip(Str(DictGet(item, key, JNull))))

\* str(item.get(key, "")).strip()
Field(item, key) == JStr(Strip(Str(DictGet(item, key, JStr(<<>>)))))

\* The dict appended at lines 105-112.
QARecord(qn, qtext, sans, work) ==
    [question_number |-> qn, question_text |-> qtext,
     student_answer |-> sans, student_working |-> work]

\* isinstance(item, dict)
IsDict(item) == item.t = "dict"

\* Variants of the discard test, each a slip of line 102.
DiscardNever(qn, qtext) == FALSE
DiscardEither(qn, qtext) == qn.s = <<>> \/ qtext.s = <<>>

\* if not qn and not qtext: continue
Discard(qn, qtext) == qn.s = <<>> /\ qtext.s = <<>>

\* Variants of the loop: the record put in front of cleaned instead of appended,
\* and `break` in place of the first `continue`.
RECURSIVE CleanFromPrepend(_, _, _)
CleanFromPrepend(items, i, cleaned) ==
    IF i > Len(items) THEN cleaned
    ELSE LET item == items[i] IN
         IF ~IsDict(item) THEN CleanFromPrepend(items, i + 1, cleaned)
         ELSE LET qn    == Field(item, QN)
                  qtext == Field(item, QTEXT)
                  sans  == Field(item, SANS)
                  work  == Field(item, WORK)
              IN  IF Discard(qn, qtext) THEN CleanFromPrepend(items, i + 1, cleaned)
                  ELSE CleanFromPrepend(items, i + 1,
                                        <<QARecord(qn, qtext, sans, work)>> \o cleaned)

RECURSIVE CleanFromBreak(_, _, _)
CleanFromBreak(items, i, cleaned) ==
    IF i > Len(items) THEN cleaned
    ELSE LET item == items[i] IN
         IF ~IsDict(item) THEN cleaned
         ELSE LET qn    == Field(item, QN)
                  qtext == Field(item, QTEXT)
                  sans  == Field(item, SANS)
                  work  == Field(item, WORK)
              IN  IF Discard(qn, qtext) THEN CleanFromBreak(items, i + 1, cleaned)
                  ELSE CleanFromBreak(items, i + 1,
                                      Append(cleaned, QARecord(qn, qtext, sans, work)))

\* One pass of the loop body over items[i..], appending to cleaned.
RECURSIVE CleanFrom(_, _, _)
CleanFrom(items, i, cleaned) ==
    IF i > Len(items) THEN cleaned
    ELSE LET item == items[i] IN
         IF ~IsDict(item) THEN CleanFrom(items, i + 1, cleaned)
         ELSE LET qn    == Field(item, QN)
                  qtext == Field(item, QTEXT)
                  sans  == Field(item, SANS)
                  work  == Field(item, WORK)
              IN  IF Discard(qn, qtext) THEN CleanFrom(items, i + 1, cleaned)
                  ELSE CleanFrom(items, i + 1,
                                 Append(cleaned, QARecord(qn, qtext, sans, work)))

Clean(items) == CleanFrom(items, 1, <<>>)

(* ---------------------------------------------------------------------- *)
(* What the vision model may answer (resp.output_text)                     *)
(* ---------------------------------------------------------------------- *)
\* The JSON text of a value, lexeme by lexeme.
RECURSIVE Serialize(_), SerializeItems(_, _), SerializeMembers(_, _)
Serialize(v) ==
    CASE v.t = "str"   -> <<TStr(v.s)>>
      [] v.t = "num"   -> <<TNum(v.s)>>
      [] v.t = "null"  -> <<TNull>>
      [] v.t = "true"  -> <<TTrue>>
      [] v.t = "false" -> <<TFalse>>
      [] v.t = "list"  -> <<LBrack>> \o SerializeItems(v.items, 1) \o <<RBrack>>
      [] v.t = "dict"  -> <<LBrace>> \o SerializeMembers(v.items, 1) \o <<RBrace>>

SerializeItems(xs, i) ==
    IF i > Len(xs) THEN <<>>
    ELSE (IF i > 1 THEN <<Comma>> ELSE <<>>) \o Serialize(xs[i])
         \o SerializeItems(xs, i + 1)

SerializeMembers(ms, i) ==
    IF i > Len(ms) THEN <<>>
    ELSE (IF i > 1 THEN <<Comma>> ELSE <<>>)
         \o <<TStr(ms[i].key), Colon>> \o Serialize(ms[i].val)
         \o SerializeMembers(ms, i + 1)

\* Values the model may give one field of a record; "absent" leaves the key out.
Absent == Val("absent", <<>>, <<>>)

QnValues    == {Absent, JStr(<<WS>>), JStr(<<WS, "2(a)">>)}
QtextValues == {Absent, JStr(<<>>), JStr(<<"2+2", WS, "=?", WS>>)}

\* The remaining members: all strings as the prompt asks, or noise (a null
\* answer, no working, a key the prompt never asked for).
RestValues ==
    { <<Member(SANS, JStr(<<WS, "4", WS>>)), Member(WORK, JStr(<<>>))>>,
      <<Member(SANS, JNull), Member(<<"marks">>, JNum(<<"7">>))>> }

MemberOrNone(k, v) == IF v = Absent THEN <<>> ELSE <<Member(k, v)>>

Objects ==
    { JDict(MemberOrNone(QN, qn) \o MemberOrNone(QTEXT, qt) \o rest) :
        qn \in QnValues, qt \in QtextValues, rest \in RestValues }

NonObjects == { JNull, JStr(<<"Name:", WS, "Sam">>), JList(<<JTrue>>) }

Elements == Objects \cup NonObjects

Arrays == { JList(xs) : xs \in UNION { [1..n -> Elements] : n \in 0..MaxItems } }

\* The ceiling max_output_tokens=800 cuts the text off: its last k lexemes are
\* lost (k = 0: the text arrives whole).
Cut(text, k) == SubSeq(text, 1, Len(text) - k)

Alphabet ==
    { LBrack, RBrack, LBrace, RBrace, Comma, TSpace,
      TStr(QN), TNull, TConst(<<"NaN">>),
      TJunk(<<"not">>), TOpen(<<"2+2">>) }

ShortTexts == UNION { [1..n -> Alphabet] : n \in 0..MaxTokens }



(* ---------------------------------------------------------------------- *)
(* extract_qa_from_image: the state of one invocation                      *)
(* ---------------------------------------------------------------------- *)
VARIABLES
    pc,        \* the line about to run: "L30", "L31", "L66", "L83", "L89",
               \* "L92", or "returned" / "raised" once the call is over
    api_key,   \* os.environ.get("OPENAI_API_KEY"): "unset", "empty" or "set"
    readable,  \* whether open(image_path, "rb") and f.read() succeed
    calls,     \* the I/O done so far, in order: "open", "create", "print"
    resp,      \* resp.output_text
    raw,       \* raw
    data,      \* data
    cleaned,   \* cleaned, and the value returned at "returned"
    stdout,    \* what print() has written, one text per call
    exc        \* the exception that left the function, "none" so far

vars == <<pc, api_key, readable, calls, resp, raw, data, cleaned, stdout, exc>>

\* The first print() of the except block (line 85).
Banner == <<TJunk(<<"Vision model JSON parse failed. Raw output below:">>)>>

RECURSIVE LStripText(_)
LStripText(t) == IF t # <<>> /\ Head(t).k = "ws" THEN LStripText(Tail(t)) ELSE t

RECURSIVE RStripText(_)
RStripText(t) ==
    IF t # <<>> /\ t[Len(t)].k = "ws" THEN RStripText(SubSeq(t, 1, Len(t) - 1)) ELSE t

\* resp.output_text.strip() (line 80)
StripText(t) == RStripText(LStripText(t))

Init ==
    /\ pc = "L30"
    /\ api_key \in {"unset", "empty", "set"}
    /\ readable \in BOOLEAN
    /\ calls = <<>>
    /\ resp = <<>>
    /\ raw = <<>>
    /\ data = JNull
    /\ cleaned = <<>>
    /\ stdout = <<>>
    /\ exc = "none"

\* raise: the exception leaves extract_qa_from_image.
Raise(e) == pc' = "raised" /\ exc' = e

\* A variant of line 13: `if api_key is None`.
HasKeyNotNone(k) == k # "unset"

\* _client(), lines 11-15: if not api_key: raise RuntimeError
HasKeySet(k) == k = "set"

ClientRaises ==
    /\ pc = "L30"
    /\ ~HasKeySet(api_key)
    /\ Raise("RuntimeError")
    /\ UNCHANGED <<api_key, readable, calls, resp, raw, data, cleaned, stdout>>

ClientReturns ==
    /\ pc = "L30"
    /\ HasKeySet(api_key)
    /\ pc' = "L31"
    /\ UNCHANGED <<api_key, readable, calls, resp, raw, data, cleaned, stdout, exc>>

\* _image_to_data_url(image_path), lines 18-22
ImageRaises ==
    /\ pc = "L31"
    /\ ~readable
    /\ calls' = Append(calls, "open")
    /\ Raise("OSError")
    /\ UNCHANGED <<api_key, readable, resp, raw, data, cleaned, stdout>>

ImageReturns ==
    /\ pc = "L31"
    /\ readable
    /\ calls' = Append(calls, "open")
    /\ pc' = "L66"
    /\ UNCHANGED <<api_key, readable, resp, raw, data, cleaned, stdout, exc>>

\* A variant of line 66: a failed request is sent again.
CreateRetries ==
    /\ pc = "L66"
    /\ calls' = Append(calls, "create")
    /\ UNCHANGED <<pc, api_key, readable, resp, raw, data, cleaned, stdout, exc>>

\* client.responses.create(...) and raw = resp.output_text.strip(), lines 66-80
CreateRaises ==
    /\ pc = "L66"
    /\ calls' = Append(calls, "create")
    /\ Raise("APIError")
    /\ UNCHANGED <<api_key, readable, resp, raw, data, cleaned, stdout>>

CreateReturns ==
    /\ pc = "L66"
    /\ calls' = Append(calls, "create")
    /\ \/ \E v \in Arrays \cup Elements, k \in 0..MaxCut :
              resp' = Cut(Serialize(v), k)
       \/ \E t \in ShortTexts : resp' = t
    /\ raw' = StripText(resp')
    /\ pc' = "L83"
    /\ UNCHANGED <<api_key, readable, data, cleaned, stdout, exc>>

\* A variant of lines 84-87: the banner is printed, the raw text is not.
LoadsRaisesBannerOnly ==
    /\ pc = "L83"
    /\ ~JsonLoads(raw).ok
    /\ stdout' = stdout \o <<Banner>>
    /\ calls' = calls \o <<"print">>
    /\ Raise("JSONDecodeError")
    /\ UNCHANGED <<api_key, readable, resp, raw, data, cleaned>>

\* data = json.loads(raw), lines 82-87
LoadsRaises ==
    /\ pc = "L83"
    /\ ~JsonLoads(raw).ok
    /\ stdout' = stdout \o <<Banner, raw>>
    /\ calls' = calls \o <<"print", "print">>
    /\ Raise("JSONDecodeError")
    /\ UNCHANGED <<api_key, readable, resp, raw, data, cleaned>>

LoadsReturns ==
    /\ pc = "L83"
    /\ JsonLoads(raw).ok
    /\ data' = JsonLoads(raw).v
    /\ pc' = "L89"
    /\ UNCHANGED <<api_key, readable, calls, resp, raw, cleaned, stdout, exc>>

\* A variant of line 89: anything a for loop accepts passes.
IsIterable(d) == d.t \in {"list", "str"}

\* if not isinstance(data, list): raise ValueError, lines 89-90
IsList(d) == d.t = "list"

ShapeRaises ==
    /\ pc = "L89"
    /\ ~IsList(data)
    /\ Raise("ValueError")
    /\ UNCHANGED <<api_key, readable, calls, resp, raw, data, cleaned, stdout>>

ShapePasses ==
    /\ pc = "L89"
    /\ IsList(data)
    /\ pc' = "L92"
    /\ UNCHANGED <<api_key, readable, calls, resp, raw, data, cleaned, stdout, exc>>

\* the loop and return cleaned, lines 92-114
CleanAndReturn ==
    /\ pc = "L92"
    /\ cleaned' = Clean(data.items)
    /\ pc' = "returned"
    /\ UNCHANGED <<api_key, readable, calls, resp, raw, data, stdout, exc>>

Next ==
    \/ ClientRaises
    \/ ClientReturns
    \/ ImageRaises
    \/ ImageReturns
    \/ CreateRaises
    \/ CreateReturns
    \/ LoadsRaises
    \/ LoadsReturns
    \/ ShapeRaises
    \/ ShapePasses
    \/ CleanAndReturn

Spec == Init /\ [][Next]_vars

TypeOK ==
    /\ pc \in {"L30", "L31", "L66", "L83", "L89", "L92", "returned", "raised"}
    /\ exc \in {"none", "RuntimeError", "OSError", "APIError",
                "JSONDecodeError", "ValueError"}


(* ---------------------------------------------------------------------- *)
(* Vocabulary of the properties                                            *)
(* ---------------------------------------------------------------------- *)
FieldKeys == {QN, QTEXT, SANS, WORK}

\* The output field that carries a key of the model's object.
Out(r, key) ==
    CASE key = QN    -> r.question_number
      [] key = QTEXT -> r.question_text
      [] key = SANS  -> r.student_answer
      [] key = WORK  -> r.student_working

Blank(s) == \A i \in 1..Len(s) : s[i] = WS

Trimmed(s) == s = <<>> \/ (s[1] # WS /\ s[Len(s)] # WS)

\* s is g with whitespace taken off both ends and nothing else changed.
TrimOf(s, g) ==
    /\ Trimmed(s)
    /\ \E a \in 0..Len(g) :
         /\ a + Len(s) <= Len(g)
         /\ SubSeq(g, a + 1, a + Len(s)) = s
         /\ \A i \in 1..Len(g) : (i <= a \/ i > a + Len(s)) => g[i] = WS

\* What the model's object gives for a key, as text: "" when the key is absent.
Given(item, key) == IF HasKey(item, key) THEN Str(DictGet(item, key, JNull)) ELSE <<>>

\* A record object as the prompt asks for it: an object whose four fields, where
\* given, are strings, and that identifies its question (a number or a text
\* that is not blank).
WellFormed(item) ==
    /\ item.t = "dict"
    /\ \A key \in FieldKeys : HasKey(item, key) => DictGet(item, key, JNull).t = "str"
    /\ ~(Blank(Given(item, QN)) /\ Blank(Given(item, QTEXT)))

\* An object with neither a question number nor a question text.
Unidentified(item) ==
    item.t = "dict" /\ Blank(Given(item, QN)) /\ Blank(Given(item, QTEXT))

Identified(item) == item.t = "dict" /\ ~Unidentified(item)

\* The record r carries the object item.
Carries(r, item) == \A key \in FieldKeys : TrimOf(Out(r, key).s, Given(item, key))

Returned == pc = "returned"

\* C1: when the response is a valid JSON array whose elements are all well-formed
\* record objects, the call returns one record per object, in the array's order,
\* each field a string equal to the object's field with the whitespace trimmed
\* off its ends.
C1_OneRecordPerObject ==
    (/\ Returned
     /\ ValidJson(raw)
     /\ \A i \in 1..Len(data.items) : WellFormed(data.items[i]))
    => /\ SkipSpace(raw) = Serialize(data)
       /\ Len(cleaned) = Len(data.items)
       /\ \A i \in 1..Len(cleaned) :
            /\ \A key \in FieldKeys : Out(cleaned[i], key).t = "str"
            /\ Carries(cleaned[i], data.items[i])

\* Two different well-formed objects came back as two records, and trimming
\* changed a field.
C1_Witness ==
    /\ Returned
    /\ ValidJson(raw)
    /\ Len(data.items) = 2
    /\ \A i \in 1..2 : WellFormed(data.items[i])
    /\ Len(cleaned) = 2
    /\ cleaned[1] # cleaned[2]
    /\ cleaned[1].question_number.s # Given(data.items[1], QN)

\* C2: an object whose question_number and question_text are both empty after
\* trimming is dropped whatever its other fields hold: the records returned are
\* no more than the objects that identify a question, and none of them has both
\* question_number and question_text empty.
C2_UnidentifiedDropped ==
    Returned =>
      /\ Len(cleaned) <= Cardinality({i \in 1..Len(data.items) : Identified(data.items[i])})
      /\ \A j \in 1..Len(cleaned) :
           ~(cleaned[j].question_number.s = <<>> /\ cleaned[j].question_text.s = <<>>)

\* An object with a student_answer but neither number nor text was dropped.
C2_Witness ==
    /\ Returned
    /\ \E i \in 1..Len(data.items) :
         /\ Unidentified(data.items[i])
         /\ ~Blank(Given(data.items[i], SANS))
    /\ Len(cleaned) < Len(data.items)

\* C3: an object with a question_number that is not blank and a blank or absent
\* question_text is returned, and so is one with a question_text only: every
\* such object has its record in the result, and the result has a record for
\* each object that has either.
C3_OneIdentifierSuffices ==
    Returned =>
      /\ Len(cleaned) >= Cardinality({i \in 1..Len(data.items) : Identified(data.items[i])})
      /\ \A i \in 1..Len(data.items) :
           (/\ data.items[i].t = "dict"
            /\ Blank(Given(data.items[i], QN)) # Blank(Given(data.items[i], QTEXT)))
           => \E j \in 1..Len(cleaned) : Carries(cleaned[j], data.items[i])

\* A number-only object (no question_text key) and a text-only object both came back.
C3_Witness ==
    /\ Returned
    /\ Len(data.items) = 2
    /\ data.items[1].t = "dict" /\ data.items[2].t = "dict"
    /\ ~Blank(Given(data.items[1], QN)) /\ ~HasKey(data.items[1], QTEXT)
    /\ Blank(Given(data.items[2], QN)) /\ ~Blank(Given(data.items[2], QTEXT))
    /\ Len(cleaned) = 2
    /\ cleaned[1].question_text.s = <<>>
    /\ cleaned[2].question_number.s = <<>>

\* C4: elements of the array that are not objects are skipped without an error
\* and without touching their siblings: a response that is an array never ends
\* in an exception, and what is returned is what the array without those
\* elements returns.
C4_NonObjectsSkipped ==
    /\ (pc = "raised" /\ exc = "ValueError") => data.t # "list"
    /\ Returned =>
         cleaned = Clean(SelectSeq(data.items, LAMBDA item : item.t = "dict"))

\* A non-object element stood before an object whose record came back.
C4_Witness ==
    /\ Returned
    /\ Len(data.items) = 2
    /\ data.items[1].t # "dict"
    /\ Identified(data.items[2])
    /\ Len(cleaned) = 1


\* The vision model has answered: raw holds its trimmed text.
Answered == "create" \in {calls[i] : i \in 1..Len(calls)} /\ exc # "APIError"

Over == pc \in {"returned", "raised"}

\* C5: a response whose trimmed text is not valid JSON ends in JSONDecodeError
\* (MalformedResponse) and never goes past json.loads, so nothing is returned.
C5_InvalidJsonAlwaysMalformed ==
    (Answered /\ ~ValidJson(raw)) =>
        \/ pc = "L83"
        \/ (pc = "raised" /\ exc = "JSONDecodeError")

\* C6: a response that is valid JSON whose top-level value is not an array ends
\* in ValueError (UnexpectedShape), not in the JSONDecodeError of a parse
\* failure, with no record collected.
C6_NotAnArrayIsUnexpectedShape ==
    (/\ Answered
     /\ ValidJson(raw)
     /\ Decode(raw, FALSE).v.t # "list"
     /\ pc \notin {"L83", "L89"})
    => /\ pc = "raised"
       /\ exc = "ValueError"
       /\ cleaned = <<>>

\* A top-level JSON object was refused.
C6_Witness ==
    /\ pc = "raised"
    /\ exc = "ValueError"
    /\ ValidJson(raw)
    /\ data.t = "dict"
    /\ HasKey(data, QN)

\* C7: with OPENAI_API_KEY unset (or empty) the call ends in RuntimeError
\* (ConfigurationError) with no I/O done: the image is not opened and no request
\* is sent, readable image or not.
C7_NoCredentialNoIO ==
    /\ api_key # "set" =>
         /\ calls = <<>>
         /\ pc = "L30" \/ (pc = "raised" /\ exc = "RuntimeError")
    /\ exc = "RuntimeError" => (api_key # "set" /\ calls = <<>>)

\* The credential was missing, the image was readable, the call failed.
C7_Witness ==
    /\ api_key = "unset"
    /\ readable
    /\ pc = "raised"
    /\ exc = "RuntimeError"

ReturnedFields == {"question_number", "question_text", "student_answer", "student_working"}

\* The objects of the array that identify a question, in the array's order.
IdentifiedItems == SelectSeq(data.items, Identified)

\* C8: every record returned has exactly the four fields question_number,
\* question_text, student_answer and student_working, each a string; a field
\* the model's object does not have is the empty string.
C8_FourStringFields ==
    Returned =>
      /\ Len(cleaned) = Len(IdentifiedItems)
      /\ \A j \in 1..Len(cleaned) :
           /\ DOMAIN cleaned[j] = ReturnedFields
           /\ \A f \in ReturnedFields : cleaned[j][f].t = "str"
           /\ \A key \in FieldKeys :
                ~HasKey(IdentifiedItems[j], key) => Out(cleaned[j], key).s = <<>>

\* A record came back from an object that had no question_text and no
\* student_working, a null student_answer and a key of its own.
C8_Witness ==
    /\ Returned
    /\ Len(cleaned) = 1
    /\ Len(data.items) = 1
    /\ ~HasKey(data.items[1], QTEXT)
    /\ ~HasKey(data.items[1], WORK)
    /\ HasKey(data.items[1], <<"marks">>)
    /\ cleaned[1].student_answer.s = <<"None">>
    /\ cleaned[1].student_working.s = <<>>

\* t is the text u without the whitespace at its ends.
TextTrimOf(t, u) ==
    /\ t = <<>> \/ (t[1].k # "ws" /\ t[Len(t)].k # "ws")
    /\ \E a \in 0..Len(u) :
         /\ a + Len(t) <= Len(u)
         /\ SubSeq(u, a + 1, a + Len(t)) = t
         /\ \A i \in 1..Len(u) : (i <= a \/ i > a + Len(t)) => u[i].k = "ws"

\* C9: when json.loads fails, the banner and then the trimmed response text are
\* printed, and the JSONDecodeError still leaves the function; on every other
\* outcome nothing is printed.
C9_RawPrintedOnlyOnParseFailure ==
    /\ (Answered /\ ~JsonLoads(raw).ok /\ pc # "L83") =>
         /\ pc = "raised"
         /\ exc = "JSONDecodeError"
         /\ Len(stdout) = 2
         /\ stdout[1] = Banner
         /\ TextTrimOf(stdout[2], resp)
         /\ SubSeq(calls, Len(calls) - 1, Len(calls)) = <<"print", "print">>
    /\ ~(Answered /\ ~JsonLoads(raw).ok /\ pc # "L83") =>
         /\ stdout = <<>>
         /\ exc # "JSONDecodeError"
         /\ \A i \in 1..Len(calls) : calls[i] # "print"

\* A response wrapped in whitespace failed to parse and was printed trimmed.
C9_Witness ==
    /\ pc = "raised"
    /\ exc = "JSONDecodeError"
    /\ resp # raw
    /\ raw # <<>>
    /\ stdout = <<Banner, raw>>

Count(seq, x) == Cardinality({i \in 1..Len(seq) : seq[i] = x})

\* C10: a call sends at most one request, and only after the credential was
\* found and the image read; an unreadable image ends the call in its OSError
\* with no request sent; after a failure, and after the return, no step runs.
C10_FailStopOneRequest ==
    /\ Count(calls, "create") <= 1
    /\ Count(calls, "open") <= 1
    /\ Count(calls, "create") = 1 =>
         (api_key = "set" /\ readable /\ calls[1] = "open" /\ calls[2] = "create")
    /\ exc = "OSError" => (~readable /\ calls = <<"open">>)
    /\ exc = "APIError" => calls = <<"open", "create">>
    /\ exc = "ValueError" => calls = <<"open", "create">>
    /\ exc # "none" <=> pc = "raised"
    /\ Over => ~ENABLED Next

\* The image could not be read: the call ended there.
C10_Witness ==
    /\ pc = "raised"
    /\ exc = "OSError"
    /\ api_key = "set"
    /\ calls = <<"open">>

=============================================================================
